---- MODULE Spec2Model ----
(***************************************************************************)
(* Model of the CoAP-over-GATT request path of the CoAP/ACE firmware:      *)
(* Connection::write (src/src/coap_gatt.rs), the handler tree of           *)
(* src/src/coap.rs, the claims check of src/src/rs_configuration.rs and    *)
(* the device clock of src/src/devicetime.rs.                              *)
(*                                                                         *)
(* The resource server (context store), and the OSCORE protect/unprotect   *)
(* engine are libraries the firmware calls; they are modelled from the     *)
(* specification's sections 4.4 and 4.5.                                   *)
(*                                                                         *)
(* One protected request is modelled in two steps: WriteProtected (parse,  *)
(* lock, look up, unprotect, extract) and WriteRespond (build the          *)
(* response, protect, release the lock).  Between the two the request      *)
(* holds the store lock, and requests of other connections may arrive.     *)
(*                                                                         *)
(* Spec is the request path; LiveSpec adds that a write which has          *)
(* unprotected its request goes on to its return; ExpirySpec is the        *)
(* request path with the history of the contexts found expired.            *)
(* TokenSpec is the digest of a token (decryption, ApplicationClaims::     *)
(* try_from, Permissions::parse) on its own, and ClockSpec the device      *)
(* clock on its own.  PermSpec is the permissions wrapper of the handler   *)
(* tree on its own, WireSpec the request path from the OSCORE options of   *)
(* the message on, LedSpec the LEDs (src/src/blink.rs) with the /leds and  *)
(* /identify handlers, and ConnSpec the connection counter of              *)
(* src/src/main.rs (ConnLiveSpec: with bluetooth_task scheduled fairly).   *)
(***************************************************************************)
EXTENDS Integers, Sequences, FiniteSets, TLC

(***************************************************************************)
(* Bounds of the model.                                                    *)
(***************************************************************************)
NumConns == 2       \* connections (blueworker tasks) that deliver requests
NumKids == 2        \* key identifiers a request or a token may cite
MaxIngest == 2      \* security contexts provisioned in one run
MaxUptime == 1      \* seconds of uptime that pass in one run
MaxPiv == 2         \* largest partial IV (request sequence number) a peer sends
MaxTimeInput == 2   \* largest value a peer PUTs to /time
MaxExp == 1         \* largest expiry a token carries
WordBits == 4       \* width of the clock's words (the firmware's are u32)
MaxEntries == 3     \* (path, bitmask) entries of one scope claim
MaxLevel == 5       \* largest level a peer PUTs to /leds (the board has 4 LEDs)
AnimFrames == 3     \* await points of one identify animation (the firmware's has 32)
MaxCalls == 3       \* requests to /identify in one run
MaxOscoreOptions == 2   \* OSCORE options in one message
MaxScopeClaims == 2 \* scope claims of one claims set

(***************************************************************************)
(* Parameters of the libraries, taken from the specification.              *)
(***************************************************************************)
Capacity == 1       \* entries of the Context Store
SeqLimit == 3       \* send sequence numbers of one context (exhaustion bound)
WindowSize == 2     \* width of the replay window

Conns == 1..NumConns
KIDs == 1..NumKids
Gens == 1..MaxIngest
TimeInputs == 1..MaxTimeInput
ExpValues == 1..MaxExp
U32 == 2 ^ WordBits

\* Request codes as the handlers compare them (coap_numbers::code)
EMPTY == 0
GET == 1
POST == 2
PUT == 3

\* the largest u8: request codes and permissions masks
U8Max == 255

\* pool_size of the identify task (blink.rs 120: the default, one)
IdentifyPool == 1

\* main.rs 103
MAX_CONNECTIONS == 4

\* pool_size of blueworker, main.rs 174
BlueworkerPool == 4

VARIABLES
    store,      \* Context Store: sequence of security contexts, oldest first
    lock,       \* the Rs mutex: 0 when free, else the connection holding it
    pc,         \* per connection: "idle", "inflight" (between unprotect and
                \* protect) or "halted" (the firmware panicked)
    cur,        \* per connection: what is known of the request in flight
    OFFSET,     \* devicetime::OFFSET
    uptime,     \* embassy_time::Instant::now().as_secs()
    last,       \* the most recently completed write: response and observations
    nextGen,    \* identity of the next context provisioned
    posted,     \* the claims set last digested, and what became of it
    clock,      \* the calls of the clock: the build, the time last set, the
                \* time last read
    lapsed,     \* history, where it is kept: the contexts (by identity) that
                \* a request found expired
    perm,       \* a call of WithPermissions::extract_request_data: the build,
                \* the request code, the permissions, and what it returned
    leds,       \* blink::Leds, its pins and the identify task
    ble         \* main.rs: USED_CONNECTIONS, bluetooth_task and the blueworkers

vars ==
    <<store, lock, pc, cur, OFFSET, uptime, last, nextGen, posted, clock, lapsed,
      perm, leds, ble>>

None == "None"

(***************************************************************************)
(* devicetime.rs                                                           *)
(***************************************************************************)
ClockNotSet == -1

\* unixtime(): Err(ClockNotSet) while OFFSET is 0, else uptime + OFFSET
unixtime == IF OFFSET = 0 THEN ClockNotSet ELSE (uptime + OFFSET) % U32

\* set_unixtime(now): the value stored to OFFSET
set_unixtime(now) == (now + U32 - uptime) % U32

\* The subtraction of set_unixtime and the addition of unixtime are in the
\* clock's word: where they leave it, a build with overflow checks panics and
\* one without wraps.
set_unixtime_overflows(now) == now - uptime < 0

unixtime_overflows == OFFSET # 0 /\ uptime + OFFSET >= U32

\* What is kept of the calls of the clock: whether the build has overflow
\* checks, whether set_unixtime was called and with what, and what unixtime()
\* returned when it was last called after that (NotRead: it was not).
NotRead == -2

NoClock == [checks |-> FALSE, set |-> FALSE, now |-> 0, read |-> NotRead]

(***************************************************************************)
(* rs_configuration.rs                                                     *)
(***************************************************************************)
\* A validity check that forgets to compare the expiry.
valid_NoExpiryCheck(exp) == unixtime # ClockNotSet

\* A validity check that ends a context one second early.
valid_Strict(exp) ==
    LET now == unixtime
    IN IF now # ClockNotSet THEN exp > now ELSE FALSE

\* ApplicationClaims::valid
valid(exp) ==
    LET now == unixtime
    IN IF now # ClockNotSet THEN exp >= now ELSE FALSE

\* The scopes tokens carry: per-resource REST method bitmasks (Permissions)
Scopes ==
    { [temp |-> 0, identify |-> 0, leds |-> 0],
      [temp |-> 1, identify |-> 2, leds |-> 4] }

NoPermissions == [temp |-> 0, identify |-> 0, leds |-> 0]

SeqsUpTo(S, n) == UNION {[1..k -> S] : k \in 0..n}

\* The bytes of a scope claim: a CBOR array header and the items after it.  An
\* item is a (text path, integer bitmask) pair, or something else ("bad": an
\* item of another type, or the end of the input).
Paths == {"/temp", "/identify", "/leds", "/x"}

PermValues == {1, 2, 256}

BadItem == [form |-> "bad", path |-> "", perms |-> 0]

Items == [form : {"pair"}, path : Paths, perms : PermValues] \cup {BadItem}

NoArray == [header |-> FALSE, items |-> << >>]

ScopeBytes(n) == [header : {TRUE}, items : SeqsUpTo(Items, n)] \cup {NoArray}

\* A parse in which the first entry of a path wins.
RECURSIVE parseItems_FirstWins(_, _, _)
parseItems_FirstWins(items, parsed, done) ==
    IF items = << >>
    THEN [ok |-> TRUE, value |-> parsed]
    ELSE LET item == Head(items)
         IN IF item.form # "pair" \/ item.perms > 255
            THEN [ok |-> FALSE, value |-> NoPermissions]
            ELSE parseItems_FirstWins(Tail(items),
                    CASE item.path \in done -> parsed
                      [] item.path = "/temp" -> [parsed EXCEPT !.temp = item.perms]
                      [] item.path = "/identify" -> [parsed EXCEPT !.identify = item.perms]
                      [] item.path = "/leds" -> [parsed EXCEPT !.leds = item.perms]
                      [] OTHER -> parsed,
                    done \cup {item.path})

parse_FirstWins(input) ==
    IF ~input.header
    THEN [ok |-> FALSE, value |-> NoPermissions]
    ELSE parseItems_FirstWins(input.items, NoPermissions, {})

\* The loop of Permissions::parse, rs_configuration.rs 59-73: an item that does
\* not decode as (&str, u8) ends the parse with an error; a known path sets its
\* member, any other path is skipped.
RECURSIVE parseItems(_, _)
parseItems(items, parsed) ==
    IF items = << >>
    THEN [ok |-> TRUE, value |-> parsed]
    ELSE LET item == Head(items)
         IN IF item.form # "pair" \/ item.perms > 255
            THEN [ok |-> FALSE, value |-> NoPermissions]
            ELSE parseItems(Tail(items),
                    CASE item.path = "/temp" -> [parsed EXCEPT !.temp = item.perms]
                      [] item.path = "/identify" -> [parsed EXCEPT !.identify = item.perms]
                      [] item.path = "/leds" -> [parsed EXCEPT !.leds = item.perms]
                      [] OTHER -> parsed)

\* A parse that rejects a path it does not know.
parse_RejectUnknown(input) ==
    IF ~input.header \/ \E k \in 1..Len(input.items) : input.items[k].path = "/x"
    THEN [ok |-> FALSE, value |-> NoPermissions]
    ELSE parseItems(input.items, NoPermissions)

\* Permissions::parse, rs_configuration.rs 56-75
parse(input) ==
    IF ~input.header
    THEN [ok |-> FALSE, value |-> NoPermissions]
    ELSE parseItems(input.items, NoPermissions)

\* A claims set as try_from reads it: the expiration time (absent, a
\* fractional timestamp, or whole seconds n) and the scope claims among the
\* other claims, in their order.
NoExp == -1

ExpClaims ==
    {[kind |-> "none", n |-> 0], [kind |-> "float", n |-> 1]}
    \cup [kind : {"whole"}, n : (-1..(MaxExp + 1)) \cup {U32}]

NoClaims == [exp |-> [kind |-> "none", n |-> 0], scopes |-> << >>]

NoApplicationClaims == [scope |-> NoPermissions, exp |-> NoExp]

UnrecognizedCredentials(log) ==
    [ok |-> FALSE, log |-> log, claims |-> NoApplicationClaims]

\* The loop over the claims, rs_configuration.rs 99-119: every scope claim is
\* parsed; one that does not parse, or a second one, ends try_from.
RECURSIVE scopeLoop(_, _)
scopeLoop(scopes, scope) ==
    IF scopes = << >>
    THEN [err |-> None, scope |-> scope]
    ELSE LET new == parse(Head(scopes))
         IN IF ~new.ok
            THEN [err |-> "Unparsable scope claim", scope |-> scope]
            ELSE IF scope.some
            THEN [err |-> "Duplicate scope claim", scope |-> scope]
            ELSE scopeLoop(Tail(scopes), [some |-> TRUE, value |-> new.value])

\* A digest that checks nothing of the expiry against the clock.
try_from_NoValidity(claims) ==
    LET exp == IF claims.exp.kind = "whole" /\ claims.exp.n \in 0..(U32 - 1)
               THEN claims.exp.n ELSE NoExp
        loop == scopeLoop(claims.scopes, [some |-> FALSE, value |-> NoPermissions])
    IN IF loop.err # None THEN UnrecognizedCredentials(loop.err)
       ELSE IF ~loop.scope.some THEN UnrecognizedCredentials("No scope set")
       ELSE IF exp = NoExp THEN UnrecognizedCredentials("No expiry set")
       ELSE [ok |-> TRUE, log |-> "Token accepted",
             claims |-> [scope |-> loop.scope.value, exp |-> exp]]

\* A digest that accepts a claims set without a scope, granting nothing.
try_from_DefaultScope(claims) ==
    LET exp == IF claims.exp.kind = "whole" /\ claims.exp.n \in 0..(U32 - 1)
               THEN claims.exp.n ELSE NoExp
        loop == scopeLoop(claims.scopes, [some |-> FALSE, value |-> NoPermissions])
    IN IF loop.err # None /\ loop.err # "Unparsable scope claim"
       THEN UnrecognizedCredentials(loop.err)
       ELSE IF exp = NoExp THEN UnrecognizedCredentials("No expiry set")
       ELSE IF ~valid(exp) THEN UnrecognizedCredentials("validity test failed")
       ELSE [ok |-> TRUE, log |-> "Token accepted",
             claims |-> [scope |-> loop.scope.value, exp |-> exp]]

\* A digest that takes an absent expiry for one that never passes.
try_from_NoExpiryOk(claims) ==
    LET exp == IF claims.exp.kind = "whole" /\ claims.exp.n \in 0..(U32 - 1)
               THEN claims.exp.n ELSE U32 - 1
        loop == scopeLoop(claims.scopes, [some |-> FALSE, value |-> NoPermissions])
    IN IF loop.err # None THEN UnrecognizedCredentials(loop.err)
       ELSE IF ~loop.scope.some THEN UnrecognizedCredentials("No scope set")
       ELSE IF ~valid(exp) THEN UnrecognizedCredentials("validity test failed")
       ELSE [ok |-> TRUE, log |-> "Token accepted",
             claims |-> [scope |-> loop.scope.value, exp |-> exp]]

\* A digest that keeps the default permissions instead of the parsed scope.
try_from_ScopeDropped(claims) ==
    LET exp == IF claims.exp.kind = "whole" /\ claims.exp.n \in 0..(U32 - 1)
               THEN claims.exp.n ELSE NoExp
        loop == scopeLoop(claims.scopes, [some |-> FALSE, value |-> NoPermissions])
    IN IF loop.err # None THEN UnrecognizedCredentials(loop.err)
       ELSE IF ~loop.scope.some THEN UnrecognizedCredentials("No scope set")
       ELSE IF exp = NoExp THEN UnrecognizedCredentials("No expiry set")
       ELSE IF ~valid(exp) THEN UnrecognizedCredentials("validity test failed")
       ELSE [ok |-> TRUE, log |-> "Token accepted",
             claims |-> [scope |-> NoPermissions, exp |-> exp]]

\* TryFrom<&ClaimsSet> for ApplicationClaims, rs_configuration.rs 91-141.  The
\* error is UnrecognizedCredentials whatever the cause; log is the message
\* that tells the cause.
try_from(claims) ==
    LET exp == IF claims.exp.kind = "whole" /\ claims.exp.n \in 0..(U32 - 1)
               THEN claims.exp.n ELSE NoExp
        loop == scopeLoop(claims.scopes, [some |-> FALSE, value |-> NoPermissions])
    IN IF loop.err # None THEN UnrecognizedCredentials(loop.err)
       ELSE IF ~loop.scope.some THEN UnrecognizedCredentials("No scope set")
       ELSE IF exp = NoExp THEN UnrecognizedCredentials("No expiry set")
       ELSE IF ~valid(exp) THEN UnrecognizedCredentials("validity test failed")
       ELSE [ok |-> TRUE, log |-> "Token accepted",
             claims |-> [scope |-> loop.scope.value, exp |-> exp]]

\* The claims set of a token with expiry exp and one scope claim that lists
\* the three resources.
SimpleClaims(exp, scope) ==
    [exp |-> [kind |-> "whole", n |-> exp],
     scopes |-> << [header |-> TRUE,
                    items |-> << [form |-> "pair", path |-> "/temp", perms |-> scope.temp],
                                 [form |-> "pair", path |-> "/identify", perms |-> scope.identify],
                                 [form |-> "pair", path |-> "/leds", perms |-> scope.leds] >>] >>]

\* The claims sets digested: every expiry with up to MaxScopeClaims short
\* scope claims, and one good expiry with one scope claim of up to MaxEntries
\* entries.
Tokens ==
    [exp : ExpClaims, scopes : SeqsUpTo(ScopeBytes(1), MaxScopeClaims)]
    \cup [exp : {[kind |-> "whole", n |-> MaxExp]},
          scopes : [1..1 -> ScopeBytes(MaxEntries)]]

NoPosted ==
    [stage |-> "none", claims |-> NoClaims, now |-> ClockNotSet,
     result |-> UnrecognizedCredentials(None), parsed |-> << >>]

(***************************************************************************)
(* Requests.  A request addresses a path with a code; a PUT to /time       *)
(* carries a value.  A request with an OSCORE option cites a KID and a     *)
(* partial IV; auth tells whether its ciphertext was made with the keys    *)
(* of the context the store holds for that KID (the inner request of a     *)
(* ciphertext that does not authenticate is never seen).                   *)
(***************************************************************************)
NoInner == [path |-> "none", code |-> 0, val |-> 0]

Inner ==
    [path : {"time"}, code : {PUT}, val : TimeInputs]
    \cup [path : {"temp"}, code : {GET, EMPTY}, val : {0}]
    \cup [path : {"authz-info"}, code : {POST}, val : {0}]

\* Arithmetic overflow panics in a build with overflow checks and wraps in one
\* without; which of the two the firmware is built as is not fixed by the
\* source.  Only a request with code 0 (coap.rs 182) and a PUT to /time of a
\* value that the uptime can exceed (devicetime.rs 28) make the difference.
OverflowChecks(r) ==
    IF \/ r.inner.code = EMPTY
       \/ r.inner.path = "time" /\ r.inner.code = PUT /\ r.inner.val < MaxUptime
    THEN BOOLEAN
    ELSE {FALSE}

\* The OSCORE options a message carries, in their order in the message: one
\* that parses ("ok"), one whose value is longer than 16 bytes ("long"), or one
\* of at most 16 bytes that OscoreOption::parse rejects ("unparsable").
OptionKinds == {"ok", "long", "unparsable"}

NoOptions == << >>

PlainRequests ==
    [osc : {FALSE}, kid : {0}, piv : {0}, auth : {FALSE}, inner : Inner, opts : {NoOptions}]

\* Tokens are posted to /authz-info without protection.
ProtectedInner == {i \in Inner : i.path # "authz-info"}

ProtectedRequests ==
    [osc : {TRUE}, kid : KIDs, piv : 0..MaxPiv, auth : {TRUE}, inner : ProtectedInner,
     opts : {<<"ok">>}]
    \cup [osc : {TRUE}, kid : KIDs, piv : 0..MaxPiv, auth : {FALSE}, inner : {NoInner},
          opts : {<<"ok">>}]

\* What a response building step can run into: the first f writers of the
\* response fail (0: none; 1: building the response; 2: also rendering the
\* error of that).
FailModes == 0..2

(***************************************************************************)
(* Responses                                                               *)
(***************************************************************************)
Response(code, maxAge, hint, protected) ==
    [code |-> code, maxAge |-> maxAge, hint |-> hint, protected |-> protected]

\* A busy response without the Max-Age option.
ServiceUnavailableRetry_NoMaxAge == Response("5.03", None, FALSE, FALSE)

\* coap_gatt.rs 136-141: 5.03 with Max-Age 0
ServiceUnavailableRetry == Response("5.03", "0", FALSE, FALSE)

\* coap_gatt.rs 152-155: bare 4.01
ContextNotFound == Response("4.01", None, FALSE, FALSE)

\* A 4.00 that is sent through the context's protect step.
UnprotectFailed_Protected == Response("4.00", None, FALSE, TRUE)

\* An unprotect failure answered like a missing context.
UnprotectFailed_AsUnauthorized == Response("4.01", None, FALSE, FALSE)

\* coap_gatt.rs 178-181: bare 4.00
UnprotectFailed == Response("4.00", None, FALSE, FALSE)

\* coap_gatt.rs 116-117, 126-127, 281-282: bare 5.00
InternalServerError == Response("5.00", None, FALSE, FALSE)

(***************************************************************************)
(* coap.rs: the handler tree                                               *)
(***************************************************************************)
\* WithPermissions::extract_request_data, coap.rs 181-183:
\* 1u8.checked_shl(codenumber - 1) & permissions != 0, where codenumber - 1
\* wraps in u8 (the build without overflow checks)
permitted(codenumber, permissions) ==
    LET shift == (codenumber - 1) % 256
    IN IF shift >= 8
       THEN FALSE
       ELSE ((permissions \div (2 ^ shift)) % 2) = 1

\* permissions of the WithPermissions wrapper of a path, create_coap_handler 289-307
PermissionsFor(claims, path) ==
    CASE path = "temp" -> claims.temp
      [] path = "leds" -> claims.leds
      [] path = "identify" -> claims.identify
      [] OTHER -> 0

\* extract_request_data of the wrapped handlers (Temperature: GET; Leds: GET, PUT)
WrappedExtract(inner) ==
    CASE inner.path = "temp" /\ inner.code = GET -> [inner |-> "SomeOk", code |-> "2.05"]
      [] inner.path = "leds" /\ inner.code = GET -> [inner |-> "SomeOk", code |-> "2.05"]
      [] inner.path = "leds" /\ inner.code = PUT -> [inner |-> "SomeOk", code |-> "2.04"]
      [] OTHER -> [inner |-> "SomeErr", code |-> "4.05"]

\* extract_request_data of the dispatcher built by create_coap_handler(claims, ..):
\* /time is not wrapped; /leds, /temp, /identify are wrapped in WithPermissions;
\* any other path (/authz-info among them) is not found.  With overflow checks
\* (oc), codenumber - 1u8 panics for code 0, and Time::put panics in
\* set_unixtime for a value below the uptime.
Extract(claims, inner, oc) ==
    CASE inner.path = "time" ->
            IF inner.code = GET THEN [tag |-> "Ok", inner |-> "TimeGet", code |-> "2.05"]
            ELSE IF inner.code = PUT
            THEN IF oc /\ set_unixtime_overflows(inner.val)
                 THEN [tag |-> "Panic", inner |-> None, code |-> None]
                 ELSE [tag |-> "Ok", inner |-> "Done", code |-> "2.04"]
            ELSE [tag |-> "Err", inner |-> None, code |-> "4.05"]
      [] inner.path \in {"temp", "leds", "identify"} ->
            IF oc /\ inner.code - 1 < 0
            THEN [tag |-> "Panic", inner |-> None, code |-> None]
            ELSE IF permitted(inner.code, PermissionsFor(claims, inner.path))
            THEN [tag |-> "Ok"] @@ WrappedExtract(inner)
            ELSE [tag |-> "Ok", inner |-> None, code |-> None]
      [] OTHER -> [tag |-> "Err", inner |-> None, code |-> "4.04"]

NoExtracted == [tag |-> None, inner |-> None, code |-> None]

\* Time::put runs inside extract_request_data (coap.rs 41-44)
OffsetAfterExtract(inner) ==
    IF inner.path = "time" /\ inner.code = PUT THEN set_unixtime(inner.val) ELSE OFFSET

\* A lock that is always granted.
try_lock_Always == TRUE

\* Mutex::try_lock on the resource server
try_lock == lock = 0

\* UnauthorizedSeeAS::build_response, coap.rs 244-267: 4.01 with the request
\* creation hints when the resource server can be locked, else the error
\* service_unavailable
UnauthorizedSeeAS ==
    IF try_lock
    THEN [ok |-> TRUE, resp |-> Response("4.01", None, TRUE, FALSE)]
    ELSE [ok |-> FALSE, resp |-> Response("5.03", None, FALSE, FALSE)]

\* The writers one response is built from, in the order write tries them
\* (coap_gatt.rs 107-130 and 199-270): building the response from the extracted
\* data (or rendering the extraction error), rendering the error of that, and
\* setting 5.00.  Each is a record [ok, resp]; a writer that fails hands over
\* to the next.  The first f writers fail for lack of room in the message.
Writers(extracted, f) ==
    LET plain(code) == Response(code, None, FALSE, FALSE)
        fixed == [ok |-> TRUE, resp |-> InternalServerError]
        timeget == IF unixtime = ClockNotSet THEN "5.00" ELSE "2.05"
        u == UnauthorizedSeeAS
    IN IF extracted.tag = "Err"
       THEN << [ok |-> f < 1, resp |-> plain(extracted.code)], fixed >>
       ELSE IF extracted.inner = None
       THEN IF u.ok
            THEN << [ok |-> f < 1, resp |-> u.resp],
                    [ok |-> f < 2, resp |-> plain("5.00")], fixed >>
            ELSE << [ok |-> FALSE, resp |-> u.resp],
                    [ok |-> f < 2, resp |-> u.resp], fixed >>
       ELSE IF extracted.inner = "TimeGet"
       THEN << [ok |-> f < 1, resp |-> plain(timeget)],
               [ok |-> f < 2, resp |-> plain("5.00")], fixed >>
       ELSE << [ok |-> f < 1, resp |-> plain(extracted.code)],
               [ok |-> f < 2, resp |-> plain("5.00")], fixed >>

\* The unprotected path, coap_gatt.rs 107-130: the response of the first writer
\* that succeeds.
RECURSIVE PlainReply(_)
PlainReply(writers) ==
    IF Head(writers).ok THEN Head(writers).resp ELSE PlainReply(Tail(writers))

(***************************************************************************)
(* The resource server and the OSCORE engine (specification 4.4, 4.5).     *)
(* A context carries, for the properties, the send sequence numbers its    *)
(* protect steps took (log), the partial IVs it accepted, and whether a    *)
(* protect step failed on it.                                              *)
(***************************************************************************)
EmptyWindow == [hi |-> -1, seen |-> {}]

NewContext(gen, kid, exp, scope) ==
    [gen |-> gen, kid |-> kid, exp |-> exp, scope |-> scope,
     sendSeq |-> 0, window |-> EmptyWindow,
     log |-> << >>, accepted |-> {}, failed |-> FALSE]

\* look_up_context: the index of the entry of that KID, 0 when there is none
look_up_context(kid) ==
    IF \E i \in 1..Len(store) : store[i].kid = kid
    THEN CHOOSE i \in 1..Len(store) : store[i].kid = kid
    ELSE 0

\* An insert that makes room for nothing.
Insert_NoEviction(st, ctx) == Append(SelectSeq(st, LAMBDA e : e.kid # ctx.kid), ctx)

\* insert: a context of the same KID is replaced; a full store evicts its
\* oldest entry
Insert(st, ctx) ==
    LET others == SelectSeq(st, LAMBDA e : e.kid # ctx.kid)
    IN IF Len(others) >= Capacity
       THEN Append(Tail(others), ctx)
       ELSE Append(others, ctx)

\* The anti-replay check: a partial IV is fresh when it is above the highest
\* one seen, or inside the window and not seen
Fresh(window, piv) ==
    \/ piv > window.hi
    \/ piv > window.hi - WindowSize /\ piv \notin window.seen

Slide(window, piv) ==
    LET hi == IF piv > window.hi THEN piv ELSE window.hi
    IN [hi |-> hi,
        seen |-> {s \in window.seen \cup {piv} : s > hi - WindowSize}]

\* unprotect: "Replayed", "AuthFailed" or "Ok"
unprotect(ctx, req) ==
    IF ~Fresh(ctx.window, req.piv) THEN "Replayed"
    ELSE IF ~req.auth THEN "AuthFailed"
    ELSE "Ok"

\* A protect step that encrypts with the sequence number of the step before.
protect_SameNumber(ctx) ==
    IF ctx.sendSeq >= SeqLimit
    THEN [ok |-> FALSE, ctx |-> [ctx EXCEPT !.failed = TRUE]]
    ELSE [ok |-> TRUE,
          ctx |-> [ctx EXCEPT !.sendSeq = @ + 1,
                              !.log = Append(@, IF @ = << >> THEN 0 ELSE @[Len(@)])]]

\* protect: takes the next send sequence number, or fails when the sequence
\* space is exhausted
protect(ctx) ==
    IF ctx.sendSeq >= SeqLimit
    THEN [ok |-> FALSE, ctx |-> [ctx EXCEPT !.failed = TRUE]]
    ELSE [ok |-> TRUE,
          ctx |-> [ctx EXCEPT !.sendSeq = @ + 1, !.log = Append(@, ctx.sendSeq)]]

\* response.reset() between two protect steps (coap_gatt.rs 213, 229, 258)
\* rewinds the message, not the security context: the next protect step works
\* on the context as the previous one left it.
AfterReset_Rewound(before, after) == [after EXCEPT !.sendSeq = before.sendSeq]

AfterReset(before, after) == after

\* The protected path, coap_gatt.rs 199-283: one protect step per writer until a
\* writer succeeds; a failing protect step ends it with an unprotected 5.00.
\* A look-up that drops the context it found not valid.
RemoveAt(st, i) == SelectSeq(st, LAMBDA e : e.kid # st[i].kid)

AfterInvalid_Removed(st, i) == IF i = 0 THEN st ELSE RemoveAt(st, i)

\* coap_gatt.rs 146-149: a context that is not valid is taken for absent and
\* stays in the resource server ("Not removing them from the RS")
AfterInvalid(st, i) == st

\* A failed unprotect that costs the context its replay window.
AfterUnprotectFailed_WindowLost(st, i) == [st EXCEPT ![i].window = EmptyWindow]

\* coap_gatt.rs 175-183: after a failed unprotect write returns at once and
\* leaves the context as unprotect_request left it
AfterUnprotectFailed(st, i) == st

\* A protected path whose error branch sets 5.00 without a further protect step.
ProtectedReply_Leak(ctx, writers, n) ==
    LET p == protect(ctx)
    IN IF p.ok /\ Head(writers).ok
       THEN [resp |-> [Head(writers).resp EXCEPT !.protected = TRUE],
             ctx |-> p.ctx, protects |-> n + 1, failed |-> FALSE]
       ELSE [resp |-> InternalServerError, ctx |-> p.ctx, protects |-> n + 1,
             failed |-> ~p.ok]

RECURSIVE ProtectedReply(_, _, _)
ProtectedReply(ctx, writers, n) ==
    LET p == protect(ctx)
    IN IF ~p.ok
       THEN [resp |-> InternalServerError, ctx |-> p.ctx, protects |-> n + 1,
             failed |-> TRUE]
       ELSE IF Head(writers).ok
       THEN [resp |-> [Head(writers).resp EXCEPT !.protected = TRUE],
             ctx |-> p.ctx, protects |-> n + 1, failed |-> FALSE]
       ELSE ProtectedReply(AfterReset(ctx, p.ctx), Tail(writers), n + 1)

(***************************************************************************)
(* Observations of one write, kept for the properties.  The fields busy,   *)
(* ctxCase, replay, dead and allowed describe the request and the state it *)
(* arrived in; the others what write did.                                  *)
(***************************************************************************)
NoResponse == Response(None, None, FALSE, FALSE)

\* The history of expiry is kept only in the runs that start keeping it.
NoLapsed == [kept |-> FALSE, gens |-> {}]

\* No call of WithPermissions::extract_request_data was made.
NotCalled == "NotCalled"

NoPerm == [checks |-> FALSE, code |-> 0, mask |-> 0, out |-> NotCalled]

\* LedPins::set_level, blink.rs 72-79: the LEDs lit for a level (LED i is lit
\* when the level is at least i)
set_level(level) == {i \in 1..4 : level >= i}

\* No request to /identify was made.
NoIdentifyRequest ==
    [code |-> 0, payload |-> FALSE, crit |-> FALSE, mask |-> 0, held |-> FALSE,
     busy |-> FALSE, ran |-> FALSE, resp |-> None]

\* main.rs 440-441: Leds::new (the pins are in the cell, no task is spawned)
\* and set_idle(2).  pins: the cell of the pins; idle_state: the cell of the
\* level; lit: the LEDs that are lit; queued: identify tasks spawned and not
\* yet polled; holding: identify tasks that hold the pins; frame: the await
\* point the animation is at; passed: the level last passed to set_idle;
\* calls: the requests to /identify so far, and req the last of them.
NoLeds ==
    [checks |-> FALSE, halted |-> FALSE, pins |-> "Some", idle_state |-> 2,
     lit |-> set_level(2), queued |-> 0, holding |-> 0, frame |-> 0, passed |-> 2,
     calls |-> 0, req |-> NoIdentifyRequest]

\* main.rs 113, 445-453: the counter is 0, bluetooth_task is at the top of its
\* loop and no blueworker runs.  at: where bluetooth_task is ("loop": at the
\* top of its loop; "nonconn": awaiting the advertisement that cannot be
\* connected to; "adv": awaiting the connectable one); workers: the slots of
\* the blueworker pool that run a connection; result: what happened last.
NoBle == [USED_CONNECTIONS |-> 0, at |-> "loop", workers |-> {}, result |-> None]

NoObs ==
    [osc |-> FALSE, opts |-> NoOptions, kid |-> 0, busy |-> FALSE, ctxCase |-> "none",
     replay |-> FALSE,
     fresh |-> FALSE, dead |-> FALSE, allowed |-> "n/a", path |-> "none",
     unprot |-> None, extracted |-> NoExtracted,
     fails |-> 0, protects |-> 0, protectFailed |-> FALSE, resp |-> NoResponse]

Entry(kid) == CHOOSE e \in {store[i] : i \in 1..Len(store)} : e.kid = kid

\* The context a KID names on arrival: "unknown" when the store has no entry,
\* "noclock" when the device has no time, "expired" when its expiry is in the
\* past, else "live".
CtxCase(kid) ==
    IF \A i \in 1..Len(store) : store[i].kid # kid THEN "unknown"
    ELSE IF OFFSET = 0 THEN "noclock"
    ELSE IF (uptime + OFFSET) % U32 > Entry(kid).exp THEN "expired"
    ELSE "live"

\* Does the Permission Model grant the method on the resource?  GET is bit 0,
\* POST bit 1, PUT bit 2, DELETE bit 3 of the resource's mask; /time has no mask.
Granted(scope, inner) ==
    IF inner.path \notin {"temp", "leds", "identify"} THEN "n/a"
    ELSE IF inner.code - 1 \in {b \in 0..7 : (PermissionsFor(scope, inner.path) \div 2 ^ b) % 2 = 1}
    THEN "yes"
    ELSE "no"

\* What is true of a request when it arrives.  The context is looked at only
\* when the request cites one and the lock is free.
Arrival(r) ==
    LET reaches == r.osc /\ lock = 0 /\ CtxCase(r.kid) = "live"
        fresh == reaches /\ r.auth /\ Fresh(Entry(r.kid).window, r.piv)
    IN [NoObs EXCEPT
          !.fresh = fresh,
          !.path = IF ~r.osc \/ fresh THEN r.inner.path ELSE "none",
          !.osc = r.osc,
          !.opts = r.opts,
          !.kid = r.kid,
          !.busy = (lock # 0),
          !.ctxCase = IF r.osc /\ lock = 0 THEN CtxCase(r.kid) ELSE "none",
          !.replay = (reaches /\ r.auth /\ r.piv \in Entry(r.kid).accepted),
          !.dead = (reaches /\ Entry(r.kid).failed),
          !.allowed = IF ~r.osc THEN Granted(NoPermissions, r.inner)
                      ELSE IF fresh
                      THEN Granted(Entry(r.kid).scope, r.inner)
                      ELSE "n/a"]

(***************************************************************************)
(* Initial state: main() builds an empty resource server (main.rs 431-437) *)
(* and the clock is not set (devicetime.rs 19).                            *)
(***************************************************************************)
Init ==
    /\ store = << >>
    /\ lock = 0
    /\ pc = [c \in Conns |-> "idle"]
    /\ cur = [c \in Conns |-> NoObs]
    /\ OFFSET = 0
    /\ uptime = 0
    /\ last = NoObs
    /\ nextGen = 1
    /\ posted = NoPosted
    /\ clock = NoClock
    /\ lapsed = NoLapsed
    /\ perm = NoPerm
    /\ leds = NoLeds
    /\ ble = NoBle

(***************************************************************************)
(* A panic (panic_probe, main.rs 88) stops the firmware: no connection is  *)
(* served any more and the memory of the program is gone.                  *)
(***************************************************************************)
Panicked == [NoObs EXCEPT !.resp = Response("panic", None, FALSE, FALSE)]

Running == \A c \in Conns : pc[c] # "halted"

Halt ==
    /\ store' = << >>
    /\ lock' = 0
    /\ pc' = [c \in Conns |-> "halted"]
    /\ cur' = [c \in Conns |-> NoObs]
    /\ OFFSET' = 0
    /\ last' = Panicked
    /\ lapsed' = [lapsed EXCEPT !.gens = {}]
    /\ UNCHANGED <<uptime, nextGen, posted, clock, perm, leds, ble>>

(***************************************************************************)
(* Connection::write of a buffer that coap_gatt_utils::parse_mut rejects   *)
(* (coap_gatt.rs 72: the result is unwrapped)                              *)
(***************************************************************************)
WriteMalformed(c) ==
    /\ pc[c] = "idle"
    /\ Halt

\* A write that returns with the guard UnauthorizedSeeAS took still held.
WritePlain_KeepsGuard(c, r, f, oc) ==
    /\ pc[c] = "idle"
    /\ LET extracted == Extract(NoPermissions, r.inner, oc)
       IN IF extracted.tag = "Panic"
          THEN Halt
          ELSE /\ OFFSET' = OffsetAfterExtract(r.inner)
               /\ last' = [Arrival(r) EXCEPT
                              !.extracted = extracted,
                              !.fails = f,
                              !.resp = PlainReply(Writers(extracted, f))]
               /\ lock' = IF extracted.tag = "Ok" /\ extracted.inner = None /\ try_lock
                          THEN c
                          ELSE lock
               /\ UNCHANGED <<store, pc, cur, uptime, nextGen, posted, clock, lapsed,
                              perm, leds, ble>>

(***************************************************************************)
(* Connection::write, request without OSCORE option (coap_gatt.rs 101-131) *)
(***************************************************************************)
WritePlain(c, r, f, oc) ==
    /\ pc[c] = "idle"
    /\ LET extracted == Extract(NoPermissions, r.inner, oc)
       IN IF extracted.tag = "Panic"
          THEN Halt
          ELSE /\ OFFSET' = OffsetAfterExtract(r.inner)
               /\ last' = [Arrival(r) EXCEPT
                              !.extracted = extracted,
                              !.fails = f,
                              !.resp = PlainReply(Writers(extracted, f))]
               /\ UNCHANGED <<store, lock, pc, cur, uptime, nextGen, posted, clock, lapsed, perm, leds, ble>>

\* A handler built as for a request without credentials.
app_claims_Unauthenticated(i) == NoPermissions

\* coap_gatt.rs 144-169: the handler of a protected request is built with the
\* claims that look_up_context returned along with the context
app_claims(i) == store[i].scope

(***************************************************************************)
(* Connection::write, request with OSCORE option, up to the extraction of  *)
(* the request data (coap_gatt.rs 133-183)                                 *)
(***************************************************************************)
WriteProtected(c, r, oc) ==
    /\ pc[c] = "idle"
    /\ LET obs == Arrival(r)
           i == look_up_context(r.kid)
       IN IF ~try_lock
          THEN \* 134-142: the resource server is busy
               /\ last' = [obs EXCEPT !.resp = ServiceUnavailableRetry]
               /\ UNCHANGED <<store, lock, pc, cur, OFFSET, uptime, nextGen, posted, clock, lapsed, perm, leds, ble>>
          ELSE IF i = 0 \/ ~valid(store[i].exp)
          THEN \* 144-156: no context, or one that is not valid
               /\ last' = [obs EXCEPT !.resp = ContextNotFound]
               /\ store' = AfterInvalid(store, i)
               /\ lapsed' = IF lapsed.kept /\ obs.ctxCase = "expired"
                             THEN [lapsed EXCEPT !.gens = @ \cup {store[i].gen}]
                             ELSE lapsed
               /\ UNCHANGED <<lock, pc, cur, OFFSET, uptime, nextGen, posted, clock, perm, leds, ble>>
          ELSE LET u == unprotect(store[i], r)
                   extracted == Extract(app_claims(i), r.inner, oc)
               IN IF u # "Ok"
                  THEN \* 171-183: the request could not be unprotected
                       /\ last' = [obs EXCEPT !.unprot = u, !.resp = UnprotectFailed]
                       /\ store' = AfterUnprotectFailed(store, i)
                       /\ UNCHANGED <<lock, pc, cur, OFFSET, uptime, nextGen, posted, clock, lapsed, perm, leds, ble>>
                  ELSE IF extracted.tag = "Panic"
                  THEN \* 171-174: the extraction panics inside unprotect_request
                       Halt
                  ELSE \* 169-174: unprotected; the request data are extracted
                       /\ store' = [store EXCEPT
                                      ![i].window = Slide(@, r.piv),
                                      ![i].accepted = @ \cup {r.piv}]
                       /\ OFFSET' = OffsetAfterExtract(r.inner)
                       /\ lock' = c
                       /\ pc' = [pc EXCEPT ![c] = "inflight"]
                       /\ cur' = [cur EXCEPT ![c] =
                                    [obs EXCEPT !.unprot = u, !.extracted = extracted]]
                       /\ UNCHANGED <<last, uptime, nextGen, posted, clock, lapsed, perm, leds, ble>>

(***************************************************************************)
(* Connection::write, request with OSCORE option, from the building of the *)
(* response to the return, where the lock guard is dropped                 *)
(* (coap_gatt.rs 187-285)                                                  *)
(***************************************************************************)
WriteRespond(c, f) ==
    /\ pc[c] = "inflight"
    /\ LET obs == [cur[c] EXCEPT !.fails = f]
           i == look_up_context(cur[c].kid)
           reply == ProtectedReply(store[i], Writers(obs.extracted, f), 0)
       IN /\ store' = [store EXCEPT ![i] = reply.ctx]
          /\ last' = [obs EXCEPT !.resp = reply.resp,
                                 !.protects = reply.protects,
                                 !.protectFailed = reply.failed]
    /\ lock' = 0
    /\ pc' = [pc EXCEPT ![c] = "idle"]
    /\ cur' = [cur EXCEPT ![c] = NoObs]
    /\ UNCHANGED <<OFFSET, uptime, nextGen, posted, clock, lapsed, perm, leds, ble>>

(***************************************************************************)
(* The resource server digests the claims set of a token and, when         *)
(* try_from accepts it, holds a new context for the token's KID.           *)
(***************************************************************************)
Accept(kid, claims) ==
    LET result == try_from(claims)
    IN /\ Running
       /\ lock = 0
       /\ nextGen <= MaxIngest
       /\ store' = IF result.ok
                   THEN Insert(store, NewContext(nextGen, kid, result.claims.exp,
                                                 result.claims.scope))
                   ELSE store
       /\ nextGen' = IF result.ok THEN nextGen + 1 ELSE nextGen
       /\ UNCHANGED <<lock, pc, cur, OFFSET, uptime, last, clock, lapsed, perm, leds, ble>>

\* A token with an expiry and one scope claim is presented.
Ingest(kid, exp, scope) ==
    /\ Accept(kid, SimpleClaims(exp, scope))
    /\ UNCHANGED posted

\* The claims set drawn is presented; what try_from and Permissions::parse
\* made of it is kept.
PostToken(kid) ==
    /\ posted.stage = "drawn"
    /\ Accept(kid, posted.claims)
    /\ posted' = [posted EXCEPT
                     !.stage = "done",
                     !.now = unixtime,
                     !.result = try_from(posted.claims),
                     !.parsed = [k \in 1..Len(posted.claims.scopes) |->
                                    parse(posted.claims.scopes[k])]]

(***************************************************************************)
(* The Access-Token Processor (specification 4.2).  A token is an          *)
(* encrypted envelope around a claims set; auth tells whether it           *)
(* authenticates under the key shared with the authorization server.       *)
(***************************************************************************)
Undecryptable == [ok |-> FALSE, log |-> "Undecryptable", claims |-> NoApplicationClaims]

\* A decryption that trusts a claims set that does not authenticate.
decrypt_Unauthenticated(auth, claims) == [ok |-> TRUE, claims |-> claims]

\* Step 2: authenticated decryption; no claim of a token that fails it is seen
decrypt(auth, claims) ==
    IF auth THEN [ok |-> TRUE, claims |-> claims] ELSE [ok |-> FALSE, claims |-> NoClaims]

\* ingest: the claims set is digested only when the token decrypted
ingest_token(auth, claims) ==
    LET plain == decrypt(auth, claims)
    IN IF plain.ok THEN try_from(plain.claims) ELSE Undecryptable

\* After the claims set drawn was presented, its token is presented again with
\* a bit of the ciphertext flipped.
PostForged(kid) ==
    LET result == ingest_token(FALSE, posted.claims)
    IN /\ posted.stage = "done"
       /\ Running
       /\ lock = 0
       /\ nextGen <= MaxIngest
       /\ store' = IF result.ok
                   THEN Insert(store, NewContext(nextGen, kid, result.claims.exp,
                                                 result.claims.scope))
                   ELSE store
       /\ nextGen' = IF result.ok THEN nextGen + 1 ELSE nextGen
       /\ posted' = [posted EXCEPT !.stage = "forged", !.now = unixtime, !.result = result]
       /\ UNCHANGED <<lock, pc, cur, OFFSET, uptime, last, clock, lapsed, perm, leds, ble>>

\* A second of uptime passes.
Tick ==
    /\ Running
    /\ uptime < MaxUptime
    /\ uptime' = uptime + 1
    /\ UNCHANGED <<store, lock, pc, cur, OFFSET, last, nextGen, posted, clock, lapsed, perm, leds, ble>>

Next ==
    \/ \E c \in Conns : WriteMalformed(c)
    \/ \E c \in Conns, r \in PlainRequests, f \in FailModes :
          \E oc \in OverflowChecks(r) : WritePlain(c, r, f, oc)
    \/ \E c \in Conns, r \in ProtectedRequests :
          \E oc \in OverflowChecks(r) : WriteProtected(c, r, oc)
    \/ \E c \in Conns, f \in FailModes : WriteRespond(c, f)
    \/ \E kid \in KIDs, exp \in ExpValues, scope \in Scopes : Ingest(kid, exp, scope)
    \/ Tick

Spec == Init /\ [][Next]_vars

(***************************************************************************)
(* The digest of claims sets on its own: a claims set is drawn, the clock  *)
(* is one a PUT to /time can have set, and the claims set is presented.    *)
(***************************************************************************)
TokenInit ==
    /\ store = << >>
    /\ lock = 0
    /\ pc = [c \in Conns |-> "idle"]
    /\ cur = [c \in Conns |-> NoObs]
    /\ OFFSET \in 0..MaxTimeInput
    /\ uptime = 0
    /\ last = NoObs
    /\ nextGen = 1
    /\ posted \in {[NoPosted EXCEPT !.stage = "drawn", !.claims = t] : t \in Tokens}
    /\ clock = NoClock
    /\ lapsed = NoLapsed
    /\ perm = NoPerm
    /\ leds = NoLeds
    /\ ble = NoBle

TokenNext ==
    \/ \E kid \in KIDs : PostToken(kid)
    \/ \E kid \in KIDs : PostForged(kid)
    \/ Tick

TokenSpec == TokenInit /\ [][TokenNext]_vars

(***************************************************************************)
(* The device clock on its own: the build is one with or one without       *)
(* overflow checks, and Time::put and Time::get are called with every      *)
(* value of the clock's word while the uptime passes.                      *)
(***************************************************************************)
\* Time::put (coap.rs 41-44): set_unixtime(now)
TimePut(now) ==
    /\ Running
    /\ IF clock.checks /\ set_unixtime_overflows(now)
       THEN Halt
       ELSE /\ OFFSET' = set_unixtime(now)
            /\ clock' = [clock EXCEPT !.set = TRUE, !.now = now, !.read = NotRead]
            /\ UNCHANGED <<store, lock, pc, cur, uptime, last, nextGen, posted, lapsed, perm, leds, ble>>

\* Time::get (coap.rs 37-39): unixtime()
TimeGet ==
    /\ Running
    /\ IF clock.checks /\ unixtime_overflows
       THEN Halt
       ELSE /\ clock' = [clock EXCEPT !.read = unixtime]
            /\ UNCHANGED <<store, lock, pc, cur, OFFSET, uptime, last, nextGen, posted, lapsed, perm, leds, ble>>

ClockInit ==
    /\ store = << >>
    /\ lock = 0
    /\ pc = [c \in Conns |-> "idle"]
    /\ cur = [c \in Conns |-> NoObs]
    /\ OFFSET = 0
    /\ uptime = 0
    /\ last = NoObs
    /\ nextGen = 1
    /\ posted = NoPosted
    /\ clock \in {[NoClock EXCEPT !.checks = b] : b \in BOOLEAN}
    /\ lapsed = NoLapsed
    /\ perm = NoPerm
    /\ leds = NoLeds
    /\ ble = NoBle

ClockNext ==
    \/ \E now \in 0..(U32 - 1) : TimePut(now)
    \/ TimeGet
    \/ Tick

ClockSpec == ClockInit /\ [][ClockNext]_vars

(***************************************************************************)
(* The request path with the history of expiry kept, for requests whose    *)
(* response is built without a failing writer.                             *)
(***************************************************************************)
ExpiryInit ==
    /\ store = << >>
    /\ lock = 0
    /\ pc = [c \in Conns |-> "idle"]
    /\ cur = [c \in Conns |-> NoObs]
    /\ OFFSET = 0
    /\ uptime = 0
    /\ last = NoObs
    /\ nextGen = 1
    /\ posted = NoPosted
    /\ clock = NoClock
    /\ lapsed = [NoLapsed EXCEPT !.kept = TRUE]
    /\ perm = NoPerm
    /\ leds = NoLeds
    /\ ble = NoBle

ExpiryNext ==
    \/ \E c \in Conns, r \in PlainRequests :
          \E oc \in OverflowChecks(r) : WritePlain(c, r, 0, oc)
    \/ \E c \in Conns, r \in ProtectedRequests :
          \E oc \in OverflowChecks(r) : WriteProtected(c, r, oc)
    \/ \E c \in Conns : WriteRespond(c, 0)
    \/ \E kid \in KIDs, exp \in ExpValues, scope \in Scopes : Ingest(kid, exp, scope)
    \/ Tick

ExpirySpec == ExpiryInit /\ [][ExpiryNext]_vars

(***************************************************************************)
(* WithPermissions::extract_request_data on its own: the build is one with *)
(* or one without overflow checks, and the function is called with every   *)
(* request code and every permissions mask of eight bits.                  *)
(***************************************************************************)
\* coap.rs 181-187: codenumber - 1u8 panics for code 0 where overflow checks
\* are on; else the wrapped handler is asked when the code's bit is set, and
\* None is returned when it is not
extract_request_data(codenumber, permissions, checks) ==
    IF checks /\ codenumber - 1 < 0 THEN "Panic"
    ELSE IF permitted(codenumber, permissions) THEN "Forward"
    ELSE None

PermInit ==
    /\ store = << >>
    /\ lock = 0
    /\ pc = [c \in Conns |-> "idle"]
    /\ cur = [c \in Conns |-> NoObs]
    /\ OFFSET = 0
    /\ uptime = 0
    /\ last = NoObs
    /\ nextGen = 1
    /\ posted = NoPosted
    /\ clock = NoClock
    /\ lapsed = NoLapsed
    /\ perm \in [checks : BOOLEAN, code : 0..U8Max, mask : 0..U8Max, out : {NotCalled}]
    /\ leds = NoLeds
    /\ ble = NoBle

CallExtract ==
    /\ perm.out = NotCalled
    /\ perm' = [perm EXCEPT !.out = extract_request_data(perm.code, perm.mask, perm.checks)]
    /\ UNCHANGED <<store, lock, pc, cur, OFFSET, uptime, last, nextGen, posted, clock,
                   lapsed, leds, ble>>

PermNext == CallExtract

PermSpec == PermInit /\ [][PermNext]_vars

(***************************************************************************)
(* blink.rs and the /identify and /leds handlers of coap.rs on their own:  *)
(* levels are PUT to /leds and requests of every method arrive at          *)
(* /identify while the identify task runs its animation.  The executor is  *)
(* single-threaded: a handler runs between two await points of the task.   *)
(***************************************************************************)
\* Spawner::spawn without a limit on the tasks of one kind.
spawn_Unlimited(l) == [l EXCEPT !.queued = @ + 1]

\* Leds::run_identify, blink.rs 62-68: spawner.spawn(identify(self)), which
\* fails while the one slot of the task is taken; the result is discarded
spawn(l) ==
    IF l.queued + l.holding < IdentifyPool
    THEN [l EXCEPT !.queued = @ + 1]
    ELSE l

\* Identify::extract_request_data, coap.rs 127-141: the response code of the
\* rejection, or 2.04 (build_response, 150) when run_identify was called.
\* The error of ignore_elective_others is Bad Option.
Identify_extract(code, crit, payload) ==
    IF code # POST THEN "4.05"
    ELSE IF crit THEN "4.02"
    ELSE IF payload THEN "4.00"
    ELSE "2.04"

\* The LEDs lit at the await points of LedPins::identify, blink.rs 87-114:
\* all off and l1 on; l3 off; l2 on; l1 off; l4 on; l2 off; l3 on; l4 off
Frame(k) ==
    CASE k % 8 = 1 -> {1}
      [] k % 8 = 2 -> {1}
      [] k % 8 = 3 -> {1, 2}
      [] k % 8 = 4 -> {2}
      [] k % 8 = 5 -> {2, 4}
      [] k % 8 = 6 -> {4}
      [] k % 8 = 7 -> {3, 4}
      [] OTHER -> {3}

\* Leds::put (coap.rs 111-114) -> Leds::set_idle, blink.rs 45-52
SetIdle(level) ==
    /\ ~leds.halted
    /\ leds' = IF leds.pins = "Some"
               THEN [leds EXCEPT !.idle_state = level, !.passed = level,
                                 !.lit = set_level(level)]
               ELSE [leds EXCEPT !.idle_state = level, !.passed = level]
    /\ UNCHANGED <<store, lock, pc, cur, OFFSET, uptime, last, nextGen, posted, clock,
                   lapsed, perm, ble>>

\* An /identify handler that is not wrapped in WithPermissions.
IdentifyRequest_Unwrapped(code, payload, crit, mask, held) ==
    /\ ~leds.halted
    /\ leds.calls < MaxCalls
    /\ LET e == Identify_extract(code, crit, payload)
           req == [code |-> code, payload |-> payload, crit |-> crit, mask |-> mask,
                   held |-> held, busy |-> leds.queued + leds.holding > 0,
                   ran |-> e = "2.04", resp |-> e]
           called == IF req.ran THEN spawn(leds) ELSE leds
       IN leds' = [called EXCEPT !.calls = @ + 1, !.req = req]
    /\ UNCHANGED <<store, lock, pc, cur, OFFSET, uptime, last, nextGen, posted, clock,
                   lapsed, perm, ble>>

\* A request to /identify (create_coap_handler, coap.rs 289-293, 331):
\* WithPermissions::extract_request_data with the mask of the request's
\* credentials, then Identify::extract_request_data, then the response.  held:
\* the store lock is held when the response is built (by the request itself
\* when it came protected), so UnauthorizedSeeAS answers 5.03 for 4.01.
IdentifyRequest(code, payload, crit, mask, held) ==
    /\ ~leds.halted
    /\ leds.calls < MaxCalls
    /\ LET w == extract_request_data(code, mask, leds.checks)
           e == Identify_extract(code, crit, payload)
           resp == IF w = "Panic" THEN "panic"
                   ELSE IF w = None THEN (IF held THEN "5.03" ELSE "4.01")
                   ELSE e
           req == [code |-> code, payload |-> payload, crit |-> crit, mask |-> mask,
                   held |-> held, busy |-> leds.queued + leds.holding > 0,
                   ran |-> resp = "2.04", resp |-> resp]
           called == IF req.ran THEN spawn(leds) ELSE leds
       IN leds' = [called EXCEPT !.calls = @ + 1, !.req = req,
                                 !.halted = (w = "Panic")]
    /\ UNCHANGED <<store, lock, pc, cur, OFFSET, uptime, last, nextGen, posted, clock,
                   lapsed, perm, ble>>

\* The first poll of an identify task, blink.rs 121-123 and 87-100: it takes
\* the pins and runs to its first await point, or finds none and returns
TaskPoll ==
    /\ ~leds.halted
    /\ leds.queued > 0
    /\ leds' = IF leds.pins = "Some"
               THEN [leds EXCEPT !.queued = @ - 1, !.holding = @ + 1, !.pins = None,
                                 !.frame = 1, !.lit = Frame(1)]
               ELSE [leds EXCEPT !.queued = @ - 1]
    /\ UNCHANGED <<store, lock, pc, cur, OFFSET, uptime, last, nextGen, posted, clock,
                   lapsed, perm, ble>>

\* The animation goes from one await point to the next, blink.rs 98-115
AnimStep ==
    /\ ~leds.halted
    /\ leds.holding > 0
    /\ leds.frame < AnimFrames
    /\ leds' = [leds EXCEPT !.frame = @ + 1, !.lit = Frame(leds.frame + 1)]
    /\ UNCHANGED <<store, lock, pc, cur, OFFSET, uptime, last, nextGen, posted, clock,
                   lapsed, perm, ble>>

\* An animation that ends without setting the level.
AnimEnd_NoLevel ==
    /\ ~leds.halted
    /\ leds.holding > 0
    /\ leds.frame = AnimFrames
    /\ leds' = [leds EXCEPT !.holding = @ - 1, !.frame = 0, !.pins = "Some"]
    /\ UNCHANGED <<store, lock, pc, cur, OFFSET, uptime, last, nextGen, posted, clock,
                   lapsed, perm, ble>>

\* After the last await point, blink.rs 123-129: the level of idle_state is
\* set and the pins are put back, without an await point in between
AnimEnd ==
    /\ ~leds.halted
    /\ leds.holding > 0
    /\ leds.frame = AnimFrames
    /\ leds' = [leds EXCEPT !.holding = @ - 1, !.frame = 0, !.pins = "Some",
                            !.lit = set_level(leds.idle_state)]
    /\ UNCHANGED <<store, lock, pc, cur, OFFSET, uptime, last, nextGen, posted, clock,
                   lapsed, perm, ble>>

\* The masks the /identify wrapper is built with: none, GET, POST, GET and POST
IdentifyMasks == {0, 1, 2, 3}

LedInit ==
    /\ store = << >>
    /\ lock = 0
    /\ pc = [c \in Conns |-> "idle"]
    /\ cur = [c \in Conns |-> NoObs]
    /\ OFFSET = 0
    /\ uptime = 0
    /\ last = NoObs
    /\ nextGen = 1
    /\ posted = NoPosted
    /\ clock = NoClock
    /\ lapsed = NoLapsed
    /\ perm = NoPerm
    /\ leds \in {[NoLeds EXCEPT !.checks = b] : b \in BOOLEAN}
    /\ ble = NoBle

LedNext ==
    \/ \E level \in 0..MaxLevel : SetIdle(level)
    \/ \E code \in {EMPTY, GET, POST, PUT}, payload \in BOOLEAN, crit \in BOOLEAN,
          mask \in IdentifyMasks, held \in BOOLEAN :
          IdentifyRequest(code, payload, crit, mask, held)
    \/ TaskPoll
    \/ AnimStep
    \/ AnimEnd

LedSpec == LedInit /\ [][LedNext]_vars

(***************************************************************************)
(* bluetooth_task and the blueworkers (main.rs 174-284) on their own:      *)
(* peers connect and disconnect and advertisements fail, in every order.   *)
(* The executor is single-threaded: a task runs from one await point to    *)
(* the next without another task in between.                               *)
(***************************************************************************)
\* A loop that never finds the connections full.
full_Never(used) == FALSE

\* A loop that finds the connections full one connection late.
full_Late(used) == used > MAX_CONNECTIONS

\* main.rs 239: the condition of the inner loop
full(used) == used >= MAX_CONNECTIONS

\* AtomicU8::fetch_add(1) and fetch_sub(1) wrap
fetch_add(used) == (used + 1) % (U8Max + 1)

fetch_sub(used) == (used - 1) % (U8Max + 1)

\* main.rs 238-268: from the top of the loop to the next await: the
\* advertisement that cannot be connected to while the connections are full,
\* else the increment and the connectable advertisement
Loop ==
    /\ ble.at = "loop"
    /\ ble' = IF full(ble.USED_CONNECTIONS)
              THEN [ble EXCEPT !.at = "nonconn"]
              ELSE [ble EXCEPT !.at = "adv",
                               !.USED_CONNECTIONS = fetch_add(ble.USED_CONNECTIONS)]
    /\ UNCHANGED <<store, lock, pc, cur, OFFSET, uptime, last, nextGen, posted, clock,
                   lapsed, perm, leds>>

\* main.rs 246-260: the advertisement ends (after 5 s at the latest), with or
\* without an error; the loop condition is looked at again
NonconnEnds ==
    /\ ble.at = "nonconn"
    /\ ble' = [ble EXCEPT !.at = "loop", !.result = "nonconn"]
    /\ UNCHANGED <<store, lock, pc, cur, OFFSET, uptime, last, nextGen, posted, clock,
                   lapsed, perm, leds>>

\* main.rs 268-283: a peer connects; a blueworker is spawned for it, or,
\* when no slot of the pool is free, the connection is dropped and the
\* counter decremented
Connected ==
    /\ ble.at = "adv"
    /\ LET free == (1..BlueworkerPool) \ ble.workers
       IN ble' = IF free # {}
                 THEN [ble EXCEPT !.at = "loop", !.result = "connected",
                                  !.workers = @ \cup {CHOOSE w \in free : TRUE}]
                 ELSE [ble EXCEPT !.at = "loop", !.result = "dropped",
                                  !.USED_CONNECTIONS = fetch_sub(ble.USED_CONNECTIONS)]
    /\ UNCHANGED <<store, lock, pc, cur, OFFSET, uptime, last, nextGen, posted, clock,
                   lapsed, perm, leds>>

\* main.rs 268-276: advertise_connectable returns an error; the loop goes on
AdvError ==
    /\ ble.at = "adv"
    /\ ble' = [ble EXCEPT !.at = "loop", !.result = "error"]
    /\ UNCHANGED <<store, lock, pc, cur, OFFSET, uptime, last, nextGen, posted, clock,
                   lapsed, perm, leds>>

\* main.rs 199-206: the connection of a blueworker ends; the counter is
\* decremented and the task returns
WorkerEnds(w) ==
    /\ w \in ble.workers
    /\ ble' = [ble EXCEPT !.workers = @ \ {w}, !.result = "ended",
                          !.USED_CONNECTIONS = fetch_sub(ble.USED_CONNECTIONS)]
    /\ UNCHANGED <<store, lock, pc, cur, OFFSET, uptime, last, nextGen, posted, clock,
                   lapsed, perm, leds>>

ConnNext ==
    \/ Loop
    \/ NonconnEnds
    \/ Connected
    \/ AdvError
    \/ \E w \in 1..BlueworkerPool : WorkerEnds(w)

ConnSpec == Init /\ [][ConnNext]_vars

\* bluetooth_task is polled by the executor whenever it can go on, and the
\* advertisement that cannot be connected to is given a timeout (main.rs 252);
\* when peers connect or disconnect is up to them.
ConnLiveSpec == ConnSpec /\ WF_vars(Loop) /\ WF_vars(NonconnEnds)

(***************************************************************************)
(* Connection::write from the options of the message on: messages with up  *)
(* to MaxOscoreOptions OSCORE options of every kind arrive while contexts  *)
(* are provisioned and protected requests are in flight.                   *)
(***************************************************************************)
OptionLists == SeqsUpTo(OptionKinds, MaxOscoreOptions)

\* coap_gatt.rs 77-90: the value of the first OSCORE option of the message,
\* copied into 16 bytes; None when there is no such option or it does not fit
first_oscore_value(opts) ==
    IF opts = NoOptions THEN None
    ELSE IF Head(opts) = "long" THEN None
    ELSE Head(opts)

\* coap_gatt.rs 91-99: OscoreOption::parse of that value
oscore_option(opts) ==
    LET o == first_oscore_value(opts)
    IN IF o = None THEN None
       ELSE IF o = "unparsable" THEN None
       ELSE "Some"

\* The messages: the options, what the message asks for when it is read as it
\* is (inner), and the context and partial IV its first OSCORE option cites
\* when that parses.
WireRequests ==
    [opts : OptionLists, kid : KIDs, piv : {0},
     inner : {i \in Inner : i.code # EMPTY /\ i.val <= 1}]

\* Connection::write, coap_gatt.rs 71-285 up to the extraction: without a
\* parsed OSCORE option the branch of 101-131, else the one of 133-183
Write(c, w, f, oc) ==
    IF oscore_option(w.opts) = None
    THEN WritePlain(c, [osc |-> FALSE, kid |-> 0, piv |-> 0, auth |-> FALSE,
                        inner |-> w.inner, opts |-> w.opts], f, oc)
    ELSE WriteProtected(c, [osc |-> TRUE, kid |-> w.kid, piv |-> w.piv, auth |-> TRUE,
                            inner |-> w.inner, opts |-> w.opts], oc)

WireNext ==
    \/ \E c \in Conns, w \in WireRequests : Write(c, w, 0, FALSE)
    \/ \E c \in Conns : WriteRespond(c, 0)
    \/ \E kid \in KIDs, exp \in ExpValues, scope \in Scopes : Ingest(kid, exp, scope)
    \/ Tick

WireSpec == Init /\ [][WireNext]_vars

(***************************************************************************)
(* Connection::write is a function without a suspension point: a write     *)
(* that has unprotected its request goes on to its return.                 *)
(***************************************************************************)
LiveSpec == Spec /\ \A c \in Conns : WF_vars(\E f \in FailModes : WriteRespond(c, f))

(***************************************************************************)
(* Properties                                                              *)
(***************************************************************************)
Contexts == {store[i] : i \in 1..Len(store)}

\* C1: a request with an OSCORE option that arrives while another request in
\* flight holds the store lock is answered at once with 5.03 carrying Max-Age
\* 0, and that step changes neither the store (send sequence numbers, replay
\* windows, entries) nor the lock or any request in flight.
C1_BusyIsAnsweredRetry ==
    [][(last' # last /\ last'.osc /\ last'.busy) =>
          /\ lock # 0
          /\ last'.resp.code = "5.03"
          /\ last'.resp.maxAge = "0"
          /\ ~last'.resp.protected
          /\ UNCHANGED <<store, lock, pc, cur, OFFSET>>]_vars

C1_Witness ==
    /\ lock # 0
    /\ last.osc /\ last.busy
    /\ last.resp.code = "5.03" /\ last.resp.maxAge = "0"
    /\ \E c \in Conns : pc[c] = "inflight" /\ cur[c].kid = last.kid

\* C2: while a connection is between the unprotect and the protect of its
\* request it holds the lock, no other connection is or gets between its own
\* unprotect and protect, and every step that leaves it there leaves every
\* context (replay window, send sequence number) as it was.
C2_Serialized ==
    [][\A c \in Conns :
          pc[c] = "inflight" =>
              /\ lock = c
              /\ \A d \in Conns \ {c} : pc[d] # "inflight" /\ pc'[d] # "inflight"
              /\ (pc'[c] = "inflight" => store' = store)]_vars

C2_Witness ==
    \E c \in Conns :
        /\ pc[c] = "inflight"
        /\ last.osc /\ last.busy /\ last.kid = cur[c].kid
        /\ \E e \in Contexts : e.kid = last.kid /\ e.window.hi >= 0

\* C3: a protected request citing a context whose expiry is in the past gets
\* the same response as one citing a KID the store does not know: a bare 4.01
\* (no option, no payload, not protected), and no request data are extracted.
C3_ExpiredLikeUnknown ==
    last.ctxCase \in {"expired", "unknown"} =>
        /\ last.resp = Response("4.01", None, FALSE, FALSE)
        /\ last.extracted = NoExtracted

C3_Witness ==
    /\ last.ctxCase = "expired"
    /\ last.resp.code = "4.01"
    /\ \E e \in Contexts : e.kid = last.kid /\ e.window.hi >= 0

\* C4: a protected request that was unprotected under a valid context and
\* whose method the context's permissions do not allow on /temp, /leds or
\* /identify does not reach the wrapped handler, and is answered, through
\* protect, with 4.01 (taken where neither a writer of the response nor the
\* protect step fails).
C4_DeniedIsUnauthorized ==
    (last.osc /\ last.unprot = "Ok" /\ last.allowed = "no"
        /\ last.fails = 0 /\ ~last.protectFailed) =>
        /\ last.extracted.inner = None
        /\ last.resp.code = "4.01"
        /\ last.resp.protected

C9_SequenceMonotonic ==
    \A e \in Contexts :
        \A i, j \in 1..Len(e.log) : i < j => e.log[i] < e.log[j]

C9_Witness ==
    /\ last.protects = 3 /\ ~last.protectFailed
    /\ \E e \in Contexts : e.kid = last.kid /\ Len(e.log) = 3

\* C10: once a protect step has failed on a context for want of send sequence
\* numbers, no later request citing its KID is served under it (none is
\* unprotected under it).
C10_ExhaustedIsTerminal ==
    last.dead => last.unprot # "Ok"

\* C11: every write returns a response: whatever buffer a peer writes, the
\* firmware does not panic.
C11_NoPanic ==
    \A c \in Conns : pc[c] # "halted"

\* C12: the handler tree serves /authz-info: a POST to it reaches a handler
\* and is not answered 4.04 Not Found.
C12_AuthzInfoServed ==
    last.path = "authz-info" =>
        /\ last.extracted.tag = "Ok"
        /\ last.resp.code # "4.04"

(***************************************************************************)
(* Properties of the digest of a claims set (TokenSpec)                    *)
(***************************************************************************)
\* A scope claim that is an array of (text, u8) pairs
WellFormed(input) ==
    /\ input.header
    /\ \A k \in 1..Len(input.items) :
          input.items[k].form = "pair" /\ input.items[k].perms \in 0..255

\* The bitmask a well-formed scope gives a path: that of the last entry
\* naming it, 0 when none does
Named(items, path) == {k \in 1..Len(items) : items[k].path = path}

Granting(items, path) ==
    IF Named(items, path) = {}
    THEN 0
    ELSE items[CHOOSE k \in Named(items, path) :
                  \A j \in Named(items, path) : j <= k].perms

ScopeOf(items) ==
    [temp |-> Granting(items, "/temp"),
     identify |-> Granting(items, "/identify"),
     leds |-> Granting(items, "/leds")]

\* The claims set presented has an expiry try_from can use
HasExpiry == posted.claims.exp.kind = "whole" /\ posted.claims.exp.n \in 0..(U32 - 1)

\* The claims set presented has exactly one scope claim, and it is well-formed
OneGoodScope ==
    /\ Len(posted.claims.scopes) = 1
    /\ WellFormed(posted.claims.scopes[1])

ScopeRejections == {"No scope set", "Unparsable scope claim", "Duplicate scope claim"}

\* C13: a claims set with an expiry that has not passed and exactly one
\* well-formed scope claim is accepted; the ApplicationClaims, and the context
\* made of them, carry the bitmasks the scope gives /temp, /identify and /leds
\* (0 for a path it does not name) and the expiry of the claims set.
C13_ClaimsMatchScope ==
    (posted.stage = "done" /\ HasExpiry /\ OneGoodScope
        /\ posted.now # ClockNotSet /\ posted.claims.exp.n >= posted.now) =>
        /\ posted.result.ok
        /\ posted.result.claims.scope = ScopeOf(posted.claims.scopes[1].items)
        /\ posted.result.claims.exp = posted.claims.exp.n
        /\ \E e \in Contexts :
              /\ e.scope = ScopeOf(posted.claims.scopes[1].items)
              /\ e.exp = posted.claims.exp.n

C13_Witness ==
    /\ posted.stage = "done" /\ posted.result.ok
    /\ Len(posted.claims.scopes[1].items) = MaxEntries
    /\ posted.result.claims.scope.temp = 2
    /\ posted.result.claims.scope.leds = 1
    /\ posted.result.claims.scope.identify = 0
    /\ store # << >>

\* C14 as claimed: a claims set without a usable expiry is rejected for its
\* lack of expiry ("No expiry set") whatever its other claims are, and no
\* context is made.
C14_Original_NoExpiryFirst ==
    (posted.stage = "done" /\ ~HasExpiry) =>
        /\ ~posted.result.ok
        /\ posted.result.log = "No expiry set"
        /\ store = << >>

\* C14 as amended: a claims set without a usable expiry (absent, not whole
\* seconds, or not fitting the word) is rejected whatever its other claims
\* are, and no context is made; the scope claims are checked before the
\* expiry, so the rejection is for the lack of expiry exactly when the claims
\* set has one scope claim that parses, and for its scope otherwise.
C14_NoExpiryRejected ==
    (posted.stage = "done" /\ ~HasExpiry) =>
        /\ ~posted.result.ok
        /\ store = << >>
        /\ IF OneGoodScope
           THEN posted.result.log = "No expiry set"
           ELSE posted.result.log \in ScopeRejections

C14_Witness ==
    /\ posted.stage = "done"
    /\ posted.claims.exp.kind = "whole" /\ posted.claims.exp.n = U32
    /\ OneGoodScope
    /\ posted.now # ClockNotSet
    /\ posted.result.log = "No expiry set"

\* C15: a claims set without scope claim, or with a scope claim that does not
\* parse, is rejected for its scope and no context is made.
C15_NoScopeRejected ==
    (posted.stage = "done"
        /\ \/ posted.claims.scopes = << >>
           \/ \E k \in 1..Len(posted.claims.scopes) : ~WellFormed(posted.claims.scopes[k])) =>
        /\ ~posted.result.ok
        /\ posted.result.log \in ScopeRejections
        /\ store = << >>

C15_Witness ==
    /\ posted.stage = "done"
    /\ HasExpiry /\ posted.now # ClockNotSet /\ posted.claims.exp.n >= posted.now
    /\ Len(posted.claims.scopes) = 1
    /\ posted.claims.scopes[1].header
    /\ posted.result.log = "Unparsable scope claim"

\* C16: of the claims sets with an expiry and one well-formed scope claim,
\* presented when the device has the time, those whose expiry is before the
\* device time are rejected by the validity test and make no context, and
\* those whose expiry is not are accepted.
C16_ExpiredRejected ==
    (posted.stage = "done" /\ HasExpiry /\ OneGoodScope /\ posted.now # ClockNotSet) =>
        IF posted.now > posted.claims.exp.n
        THEN /\ ~posted.result.ok
             /\ posted.result.log = "validity test failed"
             /\ store = << >>
        ELSE posted.result.ok /\ store # << >>

C16_Witness ==
    /\ posted.stage = "done" /\ HasExpiry /\ OneGoodScope
    /\ posted.now # ClockNotSet
    /\ posted.now = posted.claims.exp.n + 1
    /\ posted.result.log = "validity test failed"

\* C17: Permissions::parse of a well-formed scope claim gives each of /temp,
\* /identify and /leds the bitmask of the last entry naming it, and 0 when no
\* entry names it; entries of other paths change nothing.
C17_LastEntryWins ==
    posted.stage = "done" =>
        \A k \in 1..Len(posted.claims.scopes) :
            WellFormed(posted.claims.scopes[k]) =>
                /\ posted.parsed[k].ok
                /\ posted.parsed[k].value = ScopeOf(posted.claims.scopes[k].items)

C17_Witness ==
    /\ posted.stage = "done"
    /\ \E k \in 1..Len(posted.claims.scopes) :
          LET items == posted.claims.scopes[k].items
          IN /\ Len(items) = 3
             /\ items[1].path = "/temp" /\ items[1].perms = 1
             /\ items[2].path = "/x"
             /\ items[3].path = "/temp" /\ items[3].perms = 2
             /\ posted.parsed[k].ok
             /\ posted.parsed[k].value.temp = 2

\* C18: Permissions::parse fails exactly on the scope claims that are not an
\* array of (text, u8) pairs; a path it does not know never makes it fail.
C18_FailsOnlyOnMalformed ==
    posted.stage = "done" =>
        \A k \in 1..Len(posted.claims.scopes) :
            posted.parsed[k].ok <=> WellFormed(posted.claims.scopes[k])

C18_Witness ==
    /\ posted.stage = "done"
    /\ \E k \in 1..Len(posted.claims.scopes) :
          /\ \E j \in 1..Len(posted.claims.scopes[k].items) :
                posted.claims.scopes[k].items[j].path = "/x"
          /\ \E j \in 1..Len(posted.claims.scopes[k].items) :
                posted.claims.scopes[k].items[j].path = "/leds"
          /\ posted.parsed[k].ok
          /\ posted.parsed[k].value.leds # 0

\* C19: the step that answers 4.01 to a protected request because the context
\* it cites has expired leaves the Context Store as it was.
C19_ExpiredNotRemoved ==
    [][(last' # last /\ last'.ctxCase = "expired") =>
          /\ last'.resp.code = "4.01"
          /\ store' = store]_vars

C19_Witness ==
    /\ last.ctxCase = "expired" /\ last.resp.code = "4.01"
    /\ unixtime # ClockNotSet
    /\ \E e \in Contexts : e.kid = last.kid /\ e.exp < unixtime /\ Len(e.log) >= 1

\* C20: the step that rejects a request that could not be unprotected leaves
\* the store, and so the cited context with its replay window and send
\* sequence number, as it was and the lock free; and every authentic request
\* with a fresh partial IV that reaches a live context is unprotected, whatever
\* was rejected before.
C20_FailedUnprotectKeepsContext ==
    /\ [][(last' # last /\ last'.unprot \in {"Replayed", "AuthFailed"}) =>
             /\ store' = store
             /\ lock' = lock]_vars
    /\ [](last.fresh => last.unprot = "Ok")

C20_Witness ==
    /\ last.unprot \in {"Replayed", "AuthFailed"}
    /\ \E c \in Conns :
          /\ pc[c] = "inflight"
          /\ cur[c].kid = last.kid
          /\ cur[c].fresh /\ cur[c].unprot = "Ok"

\* C21: every write returns, and returns with the lock released: no write ends
\* in a panic, the lock is held only by a request between its unprotect and
\* its protect, and every such request gets to its return, after which the
\* lock is free for a later request.
C21_WriteReturnsLockFree ==
    /\ [](last.resp.code # "panic")
    /\ [](lock # 0 => pc[lock] = "inflight")
    /\ \A c \in Conns : (pc[c] = "inflight") ~> (pc[c] = "idle" /\ lock # c)

\* The response of the last write was decided by a failed try_lock: that of
\* write itself (a request with OSCORE option arriving while the lock is
\* taken), or that of the authorization hint of a request that was denied
\* (arriving while the lock is taken, or holding the lock itself).
LockUnavailable ==
    \/ last.osc /\ last.busy
    \/ /\ last.extracted.tag = "Ok" /\ last.extracted.inner = None
       /\ (last.busy \/ last.osc)

\* C22: every response decided by a failed try_lock is 5.03 with Max-Age 0
\* (taken where no writer of the response fails for lack of room).
C22_ContentionIsRetry ==
    (LockUnavailable /\ last.fails = 0 /\ ~last.protectFailed) =>
        /\ last.resp.code = "5.03"
        /\ last.resp.maxAge = "0"

C24_ForgedTokenChangesNothing ==
    [][posted'.stage = "forged" /\ posted.stage # "forged" =>
          /\ posted'.result = Undecryptable
          /\ store' = store
          /\ nextGen' = nextGen]_vars

C24_Witness ==
    /\ posted.stage = "forged"
    /\ posted.result = Undecryptable
    /\ try_from(posted.claims).ok
    /\ Len(store) = Capacity
    /\ store[1].gen = 1 /\ store[1].exp = posted.claims.exp.n

(***************************************************************************)
(* Properties of the device clock                                          *)
(***************************************************************************)
\* The step is one in which Time::put ran: a write without OSCORE option that
\* completed, or a write with one that got to the extraction of its data.
TimePutServed(obs) == obs.path = "time" /\ obs.extracted.code = "2.04"

TimeSetStep ==
    \/ ~last'.osc /\ TimePutServed(last') /\ UNCHANGED <<uptime, store, pc>>
    \/ \E c \in Conns : pc[c] = "idle" /\ pc'[c] = "inflight" /\ TimePutServed(cur'[c])

\* C25: unixtime() is Err(ClockNotSet) until set_unixtime is first called (the
\* clock starts not set and only a served PUT to /time sets it), and is Ok
\* once set_unixtime has been called, whatever value it was given and
\* whatever the uptime was.
C25_KnownOnceSet ==
    /\ [][(OFFSET = 0 /\ OFFSET' # 0) => TimeSetStep]_vars
    /\ [][TimeSetStep => OFFSET' # 0]_vars

\* C26: once set_unixtime(now) was called, the clock does not panic and every
\* unixtime() before the next set_unixtime returns Ok of now or of a greater
\* value, for every value of now in the clock's word and every uptime.
C26_NeverBeforeNow ==
    /\ Running
    /\ (clock.set /\ clock.read # NotRead) => clock.read >= clock.now

\* C27: the nonce of an encryption is derived from the send sequence number
\* its protect step took; no two encryptions under one context (one sender
\* key) have the same nonce, the second and third protect steps that one
\* request makes after response.reset() included.
C27_NoNonceReuse ==
    \A e \in Contexts :
        \A i, j \in 1..Len(e.log) : e.log[i] = e.log[j] => i = j

C27_Witness ==
    /\ last.osc /\ last.protects = 2 /\ last.fails = 1 /\ last.resp.protected
    /\ \E e \in Contexts :
          /\ e.kid = last.kid
          /\ Len(e.log) = 3
          /\ Cardinality(e.accepted) = 2

\* C28: while unixtime() is Err(ClockNotSet) valid() is false for every expiry:
\* no token makes a context, and a protected request that cites a context of
\* the store is answered with the bare 4.01 and is not unprotected; while it is
\* Ok(now), valid() is true exactly for the expiries exp >= now.  A request is
\* unprotected only under a context whose expiry has not passed.
C28_NoClockNoAuthorization ==
    /\ [](\A exp \in 0..(U32 - 1) :
             valid(exp) <=> (unixtime # ClockNotSet /\ exp >= unixtime))
    /\ [][nextGen' # nextGen => unixtime # ClockNotSet]_vars
    /\ [](last.ctxCase = "noclock" =>
             last.resp = ContextNotFound /\ last.unprot = None /\ last.extracted = NoExtracted)
    /\ [](last.unprot # None => last.ctxCase = "live")

C28_Witness ==
    /\ unixtime = ClockNotSet
    /\ last.ctxCase = "noclock"
    /\ last.resp.code = "4.01"
    /\ \E e \in Contexts : e.kid = last.kid /\ Len(e.log) >= 1

\* C29: a context that a request has found expired (the request was answered
\* 4.01 for it) never serves a request again: no request is unprotected under
\* it, whatever is written to /time in between.
C29_ExpiryIsPermanent ==
    \A c \in Conns :
        pc[c] = "inflight" => Entry(cur[c].kid).gen \notin lapsed.gens

Bit(mask, b) == (mask \div 2 ^ b) % 2 = 1

\* C31: for every request code and every mask of eight bits,
\* WithPermissions::extract_request_data forwards to the wrapped handler exactly
\* when the code is in 1..8 and bit code - 1 of the mask is set, and returns
\* None otherwise (code 0 and codes from 9 on among them); it does not
\* overflow.
C31_ForwardsExactlyOnBit ==
    perm.out # NotCalled =>
        perm.out = IF perm.code \in 1..8 /\ Bit(perm.mask, perm.code - 1)
                   THEN "Forward"
                   ELSE None

(***************************************************************************)
(* Properties of the OSCORE option                                         *)
(***************************************************************************)
\* The first OSCORE option of the message is too long or does not parse.
Malformed(opts) == opts # NoOptions /\ Head(opts) # "ok"

C33_PlainLeavesStore ==
    [][(last'.opts = NoOptions /\ last' # last /\ Running') =>
          UNCHANGED <<store, lock, pc, cur>>]_vars

C33_Witness ==
    /\ last.opts = NoOptions /\ ~last.osc /\ last.path = "temp" /\ last.busy
    /\ \E c \in Conns : lock = c /\ pc[c] = "inflight"
    /\ \E i \in 1..Len(store) : store[i].window # EmptyWindow

(***************************************************************************)
(* Properties of the LEDs                                                  *)
(***************************************************************************)
\* The parts of Leds and of the identify task that a call can change.
LedState(l) == <<l.pins, l.idle_state, l.lit, l.queued, l.holding, l.frame>>

\* WithPermissions forwards the request to the Identify handler.
Forwarded(req) == req.code \in 1..8 /\ Bit(req.mask, req.code - 1)

\* C34 as stated: run_identify is called only for a POST with empty payload,
\* no critical option and the POST bit in the mask; every request of another
\* method is answered 4.05, every POST with a payload 4.00, and no rejected
\* request calls run_identify.
C34_Original_RejectionCodes ==
    leds.calls > 0 =>
        LET req == leds.req
        IN /\ req.ran =>
                 req.code = POST /\ ~req.payload /\ ~req.crit /\ Bit(req.mask, 1)
           /\ req.code # POST => req.resp = "4.05"
           /\ (req.code = POST /\ req.payload) => req.resp = "4.00"
           /\ req.resp # "2.04" => ~req.ran

\* C34, amended: run_identify is called exactly for a POST with empty payload,
\* no critical option and the POST bit in the mask.  A request whose method
\* the mask has is answered by the Identify handler: 4.05 when it is not a
\* POST, else Bad Option when it has a critical option, else 4.00 when it has
\* a payload.  A request whose method the mask lacks is denied by the wrapper
\* (4.01, or 5.03 when the store lock is held) whatever its method and payload.
\* No rejected request starts a task or touches the LEDs.
C34_IdentifyOnlyOnPermittedEmptyPost ==
    [][leds'.calls # leds.calls =>
          LET req == leds'.req
          IN /\ req.ran <=>
                   (req.code = POST /\ ~req.payload /\ ~req.crit /\ Bit(req.mask, 1))
             /\ req.ran => req.resp = "2.04"
             /\ (Forwarded(req) /\ req.code # POST) => req.resp = "4.05"
             /\ (Forwarded(req) /\ req.code = POST /\ req.crit) => req.resp = "4.02"
             /\ (Forwarded(req) /\ req.code = POST /\ ~req.crit /\ req.payload) =>
                   req.resp = "4.00"
             /\ (~Forwarded(req) /\ req.code # EMPTY) =>
                   req.resp = IF req.held THEN "5.03" ELSE "4.01"
             /\ ~req.ran => LedState(leds') = LedState(leds)]_vars

C34_Witness ==
    /\ leds.req.ran /\ leds.req.resp = "2.04" /\ ~leds.req.busy
    /\ leds.req.code = POST /\ Bit(leds.req.mask, 1)
    /\ leds.queued = 1

\* C35: at most one identify task exists and at most one holds the pins; the
\* cell of the pins is empty exactly while the task holds them; and a call of
\* run_identify made while a task exists changes nothing (no second task,
\* pins, level and LEDs as they were).
C35_OneAnimationOneOwner ==
    /\ [](/\ leds.queued + leds.holding <= 1
          /\ leds.pins = None <=> leds.holding = 1)
    /\ [][(leds'.calls # leds.calls /\ leds'.req.ran /\ leds'.req.busy) =>
             LedState(leds') = LedState(leds)]_vars

C35_Witness ==
    /\ leds.req.ran /\ leds.req.busy
    /\ leds.holding = 1 /\ leds.pins = None
    /\ leds.frame > 1

\* C36: idle() is the level last passed to set_idle, also while the animation
\* runs; and whenever no identify task holds the pins, the pins are in their
\* cell and the LEDs lit are those of that level.
C36_IdleLevelShown ==
    /\ leds.idle_state = leds.passed
    /\ leds.holding = 0 => (leds.pins = "Some" /\ leds.lit = set_level(leds.passed))

C36_Witness ==
    /\ leds.req.ran /\ leds.queued = 0 /\ leds.holding = 0
    /\ leds.passed = 4 /\ leds.lit = set_level(4)

(***************************************************************************)
(* Properties of the connection counter                                    *)
(***************************************************************************)
\* The connections in use: the blueworkers that run and the connectable
\* advertisement in progress.
InUse == Cardinality(ble.workers) + (IF ble.at = "adv" THEN 1 ELSE 0)

\* C37: USED_CONNECTIONS never exceeds MAX_CONNECTIONS, and it is incremented,
\* and the connectable advertisement started, only when it is below
\* MAX_CONNECTIONS.
C37_CounterWithinMax ==
    /\ [](ble.USED_CONNECTIONS <= MAX_CONNECTIONS)
    /\ [][(ble'.USED_CONNECTIONS > ble.USED_CONNECTIONS \/ (ble'.at = "adv" /\ ble.at # "adv")) =>
             /\ ble.USED_CONNECTIONS < MAX_CONNECTIONS
             /\ ble'.USED_CONNECTIONS = ble.USED_CONNECTIONS + 1
             /\ ble'.at = "adv"]_vars

C37_Witness ==
    /\ ble.USED_CONNECTIONS = MAX_CONNECTIONS
    /\ ble.at = "nonconn"
    /\ Cardinality(ble.workers) = MAX_CONNECTIONS

\* C38: USED_CONNECTIONS is at least the number of connections in use, and a
\* connectable advertisement is in progress only while fewer than
\* MAX_CONNECTIONS blueworkers run.
C38_CounterPessimistic ==
    /\ ble.USED_CONNECTIONS >= InUse
    /\ ble.at = "adv" => Cardinality(ble.workers) < MAX_CONNECTIONS

C38_Witness ==
    /\ ble.at = "adv"
    /\ Cardinality(ble.workers) = MAX_CONNECTIONS - 1
    /\ ble.result = "ended"

\* C39: whenever fewer than MAX_CONNECTIONS connections are active,
\* bluetooth_task eventually advertises as connectable.
C39_EventuallyConnectable ==
    (Cardinality(ble.workers) < MAX_CONNECTIONS) ~> (ble.at = "adv")

====
